---- MODULE Spec2Model ----
(***************************************************************************)
(* Model of the mail service of src/index.js: the three Express routes     *)
(* (POST /send-email, POST /preview-email, GET /emails), the S3 fetch, the *)
(* HTML renderer, the SendGrid call and the EmailLog collection.           *)
(*                                                                         *)
(* A JavaScript string is a sequence of tokens.  A token is one character  *)
(* ("<", "a", "/") or one fixed chunk of the template literal of           *)
(* generateHTMLEmail, which no operation of the service ever splits.       *)
(* An optional JSON field is a record [defined, v]: undefined is           *)
(* [defined |-> FALSE].                                                    *)
(***************************************************************************)
EXTENDS Integers, Sequences, FiniteSets, TLC

\* ------------------------------------------------------------------ bounds

\* Longest attachmentKeys / embeddedImageKeys list a request carries.
MaxKeys == 2

\* Largest embeddedImageCount a preview request carries.
MaxPreviewCount == 2

\* The requests of one run; both may be in flight at once.
Reqs == {1, 2}

\* ----------------------------------------------------------- option values

Undefined == [defined |-> FALSE, v |-> <<>>]

Some(x) == [defined |-> TRUE, v |-> x]

\* JavaScript truthiness of a string or array-length test `!x` for strings:
\* undefined and "" are falsy.
Falsy(x) == ~x.defined \/ x.v = <<>>

\* ----------------------------------------------------------------- strings

RECURSIVE Concat(_)
\* The concatenation of a sequence of strings.
Concat(ss) == IF ss = <<>> THEN <<>> ELSE Head(ss) \o Concat(Tail(ss))

DigitChars == <<"0", "1", "2", "3", "4", "5", "6", "7", "8", "9">>

RECURSIVE Dec(_)
\* `${n}`: the decimal digits of a natural number.
Dec(n) == IF n < 10 THEN <<DigitChars[n + 1]>>
          ELSE Dec(n \div 10) \o <<DigitChars[(n % 10) + 1]>>

\* Case folding of the 'i' option of $regex, over the letters the model uses.
Lower(c) == CASE c = "A" -> "a"
              [] c = "B" -> "b"
              [] c = "H" -> "h"
              [] c = "I" -> "i"
              [] OTHER -> c

\* The positions of "/" in a key.
SlashPositions(key) == {p \in 1..Len(key) : key[p] = "/"}

Max(S) == CHOOSE x \in S : \A y \in S : y <= x

\* key.split('/').pop(): the part after the last "/" (the whole key if none).
LastSegment(key) ==
    IF SlashPositions(key) = {} THEN key
    ELSE SubSeq(key, Max(SlashPositions(key)) + 1, Len(key))

RECURSIVE StripTags(_)
\* body.replace(/<[^>]*>/g, ''): every "<", up to and with the first ">"
\* after it, is removed, left to right; a "<" with no ">" after it stays.
StripTags(s) ==
    IF s = <<>> THEN <<>>
    ELSE IF Head(s) = "<" /\ \E p \in 2..Len(s) : s[p] = ">"
         THEN LET close == CHOOSE p \in 2..Len(s) :
                               /\ s[p] = ">"
                               /\ \A q \in 2..(p - 1) : s[q] # ">"
              IN StripTags(SubSeq(s, close + 1, Len(s)))
         ELSE <<Head(s)>> \o StripTags(Tail(s))

\* One pattern token against one text token under $options 'i': "." is the
\* regular expression's any-character, every other token of the model's
\* alphabet stands for itself.
TokenMatches(p, c) == p = "." \/ Lower(p) = Lower(c)

\* { field: { $regex: pattern, $options: 'i' } }: the pattern matches
\* somewhere in the field (unanchored).
RegexMatch(pattern, text) ==
    \E off \in 0..(Len(text) - Len(pattern)) :
        \A k \in 1..Len(pattern) : TokenMatches(pattern[k], text[off + k])

\* --------------------------------------------------------------- base64

B64Alphabet ==
    <<"A","B","C","D","E","F","G","H","I","J","K","L","M","N","O","P",
      "Q","R","S","T","U","V","W","X","Y","Z","a","b","c","d","e","f",
      "g","h","i","j","k","l","m","n","o","p","q","r","s","t","u","v",
      "w","x","y","z","0","1","2","3","4","5","6","7","8","9","+","/">>

B64(n) == B64Alphabet[n + 1]

RECURSIVE Base64(_)
\* Buffer.toString('base64') of a sequence of bytes.
Base64(b) ==
    IF Len(b) = 0 THEN <<>>
    ELSE IF Len(b) = 1 THEN
        <<B64(b[1] \div 4), B64((b[1] % 4) * 16), "=", "=">>
    ELSE IF Len(b) = 2 THEN
        <<B64(b[1] \div 4), B64((b[1] % 4) * 16 + b[2] \div 16),
          B64((b[2] % 16) * 4), "=">>
    ELSE <<B64(b[1] \div 4), B64((b[1] % 4) * 16 + b[2] \div 16),
           B64((b[2] % 16) * 4 + b[3] \div 64), B64(b[3] % 64)>>
         \o Base64(SubSeq(b, 4, Len(b)))

\* ------------------------------------------------------------ HTML renderer

\* The chunks of the template literal of generateHTMLEmail.
TplHead == "<!DOCTYPE html><html lang=\"en\"><head>...<title>"
TplStyle == "</title><style>...</style></head><body><div class=\"header\"><h1>"
TplContent == "</h1></div><div class=\"content\">"
TplAfterBody == "</div>"
TplFooter == "<div class=\"footer\"><p>...</p></div></body></html>"
ImgOpen == "<div class=\"image-container\"><img src=\""
CidScheme == "cid:"
ImgClose == "\" alt=\"Embedded Image\" style=\"max-width: 100%;\"></div>"

\* The block the forEach of generateHTMLEmail appends for one content-id.
ImageBlock(cid) == <<ImgOpen, CidScheme>> \o cid \o <<ImgClose>>

\* imageHtml: the blocks of all content-ids, in order.
ImageHtml(cids) == Concat([k \in 1..Len(cids) |-> ImageBlock(cids[k])])

generateHTMLEmail(subject, body, embeddedImageCids) ==
    <<TplHead>> \o subject \o <<TplStyle>> \o subject \o <<TplContent>>
    \o body \o <<TplAfterBody>> \o ImageHtml(embeddedImageCids)
    \o <<TplFooter>>

\* ------------------------------------------------------- external services

\* process.env.SENDGRID_FROM_EMAIL
FromEmail == <<"n", "o", "@", "x">>

\* The n-th storage key clients use: odd ones live under a folder.
KeyAt(n) == IF n % 2 = 1 THEN <<"d", "/", "f">> \o Dec(n)
            ELSE <<"f">> \o Dec(n)

\* What s3.getObject resolves to for a key that exists: {Body, ContentType}.
S3Object(key) ==
    IF "/" \in {key[p] : p \in 1..Len(key)}
    THEN [Body |-> <<137, 80, 78, 71>>, ContentType |-> "image/png"]
    ELSE [Body |-> <<37, 80>>, ContentType |-> "application/pdf"]

\* The errors the three services reject with.  A SendGrid rejection carries
\* error.response.body; the others only error.message.
S3Error == [hasResponse |-> FALSE, body |-> "", message |-> "NoSuchKey"]
SendGridErrors ==
    {[hasResponse |-> TRUE, body |-> "errors: invalid address", message |-> "Bad Request"],
     [hasResponse |-> FALSE, body |-> "", message |-> "ECONNRESET"]}
MongoError == [hasResponse |-> FALSE, body |-> "", message |-> "write failed"]

\* error.response ? error.response.body : error.message
ErrorDetail(error) == IF error.hasResponse THEN error.body ELSE error.message

\* ------------------------------------------------------------ request inputs

UndefinedBool == [defined |-> FALSE, v |-> FALSE]
UndefinedNum == [defined |-> FALSE, v |-> 0]

PlainBody == <<"y", "o">>
MarkupBody == <<"<", "b", ">", "o", "k", "<", "/", "b", ">",
                "<", "img src=\"", CidScheme, "image-", "1", "\"", ">">>

Tos == {Undefined, Some(<<"a", "@", "B">>)}
Subjects == {Undefined, Some(<<"H", "i">>)}
Bodies == {Some(<<>>), Some(PlainBody), Some(MarkupBody)}
\* embeddedImageKeys: an array of 0 .. MaxKeys keys.
EmbeddedKeyLists == {Some([k \in 1..n |-> KeyAt(k)]) : n \in 0..MaxKeys}
\* attachmentKeys: absent, or an array of MaxKeys keys.
AttachmentKeyLists == {Undefined, Some([k \in 1..MaxKeys |-> KeyAt(k)])}
OptBools == {UndefinedBool, [defined |-> TRUE, v |-> FALSE]}
Counts == {UndefinedNum} \cup {[defined |-> TRUE, v |-> n] : n \in 0..MaxPreviewCount}
Searches == {Undefined, Some(<<>>), Some(<<"h", "I">>), Some(<<"o", "k">>),
             Some(<<"@", ".">>)}

\* --------------------------------------------------------------- documents

\* A document of the EmailLog collection (schema of lines 34-53), with the
\* _id the store assigns and the timestamp defaulted at creation.
EmailLogDoc(id, to, subject, body, htmlBody, embeddedImages, attachments, timestamp) ==
    [_id |-> id, to |-> to, subject |-> subject, body |-> body,
     htmlBody |-> htmlBody, embeddedImages |-> embeddedImages,
     attachments |-> attachments, timestamp |-> timestamp]

\* Documents earlier runs of the service left in the collection.
SeedLog ==
    <<EmailLogDoc(1, <<"a", "@", "B">>, <<"H", "i">>, PlainBody,
                  generateHTMLEmail(<<"H", "i">>, PlainBody, <<>>), <<>>, <<>>, 1),
      EmailLogDoc(2, <<"c", "@", "d">>, <<"N", "o">>, <<"<", "b", ">", "o", "k">>,
                  <<"<", "b", ">", "o", "k">>, <<>>, <<>>, 2)>>

\* -------------------------------------------------------------------- state

VARIABLES
    pc,        \* where each request's handler is suspended
    req,       \* the request each handler received
    frame,     \* the locals of a /send-email handler
    calls,     \* the calls each request made to the external services, in order
    res,       \* the responses each request sent, in order
    logStore   \* the EmailLog collection, in insertion order

vars == <<pc, req, frame, calls, res, logStore>>

NoRequest ==
    [route |-> "none", to |-> Undefined, subject |-> Undefined, body |-> Undefined,
     attachmentKeys |-> Undefined, embeddedImageKeys |-> Undefined,
     useHtmlTemplate |-> UndefinedBool, embeddedImageCount |-> UndefinedNum,
     search |-> Undefined]

\* The locals of the /send-email handler as lines 143-153 leave them.
NewFrame(to, subject, body, attachmentKeys, embeddedImageKeys, useHtmlTemplate) ==
    [to |-> to, subject |-> subject, body |-> body,
     attachmentKeys |-> attachmentKeys, embeddedImageKeys |-> embeddedImageKeys,
     useHtmlTemplate |-> useHtmlTemplate,
     attachmentLogs |-> <<>>, embeddedImageLogs |-> <<>>, embeddedImageCids |-> <<>>,
     msg |-> [to |-> to, from |-> FromEmail, subject |-> subject,
              attachments |-> <<>>, html |-> Undefined, text |-> Undefined],
     plainTextContent |-> Undefined, i |-> 0, attIdx |-> 0]

NoFrame == NewFrame(<<>>, <<>>, <<>>, Undefined, Undefined, FALSE)

Init ==
    /\ pc = [r \in Reqs |-> "idle"]
    /\ req = [r \in Reqs |-> NoRequest]
    /\ frame = [r \in Reqs |-> NoFrame]
    /\ calls = [r \in Reqs |-> <<>>]
    /\ res = [r \in Reqs |-> <<>>]
    /\ logStore = SeedLog

\* ------------------------------------------------------ /send-email helpers

\* Faulty variant of MissingSendFields: the body is not checked.
MissingSendFieldsNoBody(to, subject, body) == Falsy(to) \/ Falsy(subject)

\* if (!to || !subject || !body)
MissingSendFields(to, subject, body) == Falsy(to) \/ Falsy(subject) \/ Falsy(body)

\* keys && keys.length > 0
HasKeys(keys) == keys.defined /\ Len(keys.v) > 0

\* Faulty variant of ContentId: the loop index is used as it is.
ContentIdZeroBased(i) == <<"image-">> \o Dec(i)

\* const cid = `image-${i+1}` for loop index i (0-based).
ContentId(i) == <<"image-">> \o Dec(i + 1)

\* One call to an external service as `calls` records it: the operation, the
\* storage key it names, whether it resolved, and the highest _id of the
\* collection it wrote or read (0 when it touched none).
Call(op, arg, ok, doc) == [op |-> op, arg |-> arg, ok |-> ok, doc |-> doc]

\* res.status(status).json(json)
Respond(r, status, json) == res' = [res EXCEPT ![r] = Append(@, [status |-> status, json |-> json])]

\* The catch block of /send-email (lines 236-242).
SendEmailCatch(r, error) ==
    /\ Respond(r, 500, [message |-> "Failed to send email", error |-> ErrorDetail(error)])
    /\ pc' = [pc EXCEPT ![r] = "done"]

\* Faulty variant of EmbeddedFetchFailed: the fetch of the same key is tried again.
EmbeddedFetchRetried(r) == UNCHANGED <<pc, frame, res>>

\* getFileFromS3 rethrows (line 69) out of the inline-image loop.
EmbeddedFetchFailed(r) == SendEmailCatch(r, S3Error) /\ UNCHANGED frame

\* Faulty variant of AttachmentFetchFailed: the attachment is left out and the loop
\* goes on.
AttachmentFetchSkipped(r) ==
    /\ frame' = [frame EXCEPT ![r].attIdx = @ + 1]
    /\ pc' = [pc EXCEPT ![r] =
                IF frame[r].attIdx + 1 < Len(frame[r].attachmentKeys.v)
                THEN "getAttachment" ELSE "send"]
    /\ UNCHANGED res

\* getFileFromS3 rethrows (line 69) out of the attachment loop.
AttachmentFetchFailed(r) == SendEmailCatch(r, S3Error) /\ UNCHANGED frame

\* Faulty variant of SendRejected: the failed attempt is logged all the same.
SendRejectedButLogged(r) == pc' = [pc EXCEPT ![r] = "create"] /\ UNCHANGED res

\* sgMail.send rejects: the create of line 223 is skipped.
SendRejected(r) == \E error \in SendGridErrors : SendEmailCatch(r, error)

\* Faulty variant of CreateRejected: the mail went out, so the request reports success.
CreateRejectedReportedSent(r) ==
    /\ Respond(r, 200, [message |-> "Email sent successfully",
                        htmlGenerated |-> frame[r].useHtmlTemplate])
    /\ pc' = [pc EXCEPT ![r] = "done"]

\* EmailLog.create rejects after the mail went out.
CreateRejected(r) == SendEmailCatch(r, MongoError)

\* Faulty variant of StoreCreate: a document for the same recipient and subject is
\* replaced (an upsert).
StoreCreateUpsert(store, doc) ==
    LET same == {p \in 1..Len(store) :
                   store[p].to = doc.to /\ store[p].subject = doc.subject}
    IN IF same = {} THEN Append(store, doc)
       ELSE [store EXCEPT ![CHOOSE p \in same : TRUE] = doc]

\* What EmailLog.create does to the collection: one insert.
StoreCreate(store, doc) == Append(store, doc)

\* Lines 164-180: one fetched inline image joins the message and the logs.
PushEmbedded(f, key, file) ==
    LET filename == LastSegment(key)
        cid == ContentId(f.i)
    IN [f EXCEPT
          !.msg.attachments = Append(@, [content |-> Base64(file.Body),
                                          filename |-> filename,
                                          type |-> file.ContentType,
                                          disposition |-> "inline",
                                          content_id |-> Some(cid)]),
          !.embeddedImageCids = Append(@, cid),
          !.embeddedImageLogs = Append(@, [cid |-> cid, filename |-> filename,
                                          s3Key |-> key,
                                          contentType |-> file.ContentType,
                                          size |-> Len(file.Body)]),
          !.i = @ + 1]

\* Lines 205-217: one fetched attachment joins the message and the logs.
PushAttachment(f, key, file) ==
    LET filename == LastSegment(key)
    IN [f EXCEPT
          !.msg.attachments = Append(@, [content |-> Base64(file.Body),
                                          filename |-> filename,
                                          type |-> file.ContentType,
                                          disposition |-> "attachment",
                                          content_id |-> Undefined]),
          !.attachmentLogs = Append(@, [filename |-> filename, s3Key |-> key,
                                       contentType |-> file.ContentType,
                                       size |-> Len(file.Body)]),
          !.attIdx = @ + 1]

\* Lines 185-197: the HTML and the plain-text part of the message.
SelectContent(f) ==
    IF f.useHtmlTemplate
    THEN [f EXCEPT !.plainTextContent = Some(f.body),
                   !.msg.html = Some(generateHTMLEmail(f.subject, f.body, f.embeddedImageCids)),
                   !.msg.text = Some(f.body)]
    ELSE [f EXCEPT !.plainTextContent = Some(f.body),
                   !.msg.html = Some(f.body),
                   !.msg.text = Some(StripTags(f.body))]

\* Where the handler suspends once the inline images are in (line 200).
AfterEmbedded(f) == IF HasKeys(f.attachmentKeys) THEN "getAttachment" ELSE "send"

\* The timestamps Date.now may give a document written now: the clock never
\* runs backwards, and two writes may fall in the same millisecond.
Latest == IF logStore = <<>> THEN 0 ELSE logStore[Len(logStore)].timestamp
Nows == {Latest, Latest + 1}

\* ------------------------------------------------------------- /send-email

\* Lines 135-156: the request arrives; the handler runs to its first await.
PostSendEmail(r) ==
    /\ pc[r] = "idle"
    /\ \E to \in Tos, subject \in Subjects, body \in Bodies,
          attachmentKeys \in AttachmentKeyLists, embeddedImageKeys \in EmbeddedKeyLists,
          useHtmlTemplate \in OptBools :
        /\ req' = [req EXCEPT ![r] =
                     [NoRequest EXCEPT !.route = "send-email", !.to = to,
                        !.subject = subject, !.body = body,
                        !.attachmentKeys = attachmentKeys,
                        !.embeddedImageKeys = embeddedImageKeys,
                        !.useHtmlTemplate = useHtmlTemplate]]
        /\ IF MissingSendFields(to, subject, body)
           THEN /\ Respond(r, 400, [message |-> "Missing required fields: to, subject, body"])
                /\ pc' = [pc EXCEPT ![r] = "done"]
                /\ UNCHANGED frame
           ELSE LET f == NewFrame(to.v, subject.v, body.v, attachmentKeys,
                                  embeddedImageKeys,
                                  IF useHtmlTemplate.defined THEN useHtmlTemplate.v ELSE TRUE)
                IN IF HasKeys(embeddedImageKeys)
                   THEN /\ frame' = [frame EXCEPT ![r] = f]
                        /\ pc' = [pc EXCEPT ![r] = "getEmbedded"]
                        /\ UNCHANGED res
                   ELSE /\ frame' = [frame EXCEPT ![r] = SelectContent(f)]
                        /\ pc' = [pc EXCEPT ![r] = AfterEmbedded(f)]
                        /\ UNCHANGED res
    /\ UNCHANGED <<calls, logStore>>

\* Lines 157-197: `await getFileFromS3(key)` of the inline-image loop settles.
GetEmbeddedImage(r) ==
    /\ pc[r] = "getEmbedded"
    /\ LET f == frame[r]
           key == f.embeddedImageKeys.v[f.i + 1]
       IN \E ok \in BOOLEAN :
            /\ calls' = [calls EXCEPT ![r] = Append(@, Call("getObject", key, ok, 0))]
            /\ IF ok
               THEN LET g == PushEmbedded(f, key, S3Object(key))
                    IN IF g.i < Len(f.embeddedImageKeys.v)
                       THEN /\ frame' = [frame EXCEPT ![r] = g]
                            /\ UNCHANGED <<pc, res>>
                       ELSE /\ frame' = [frame EXCEPT ![r] = SelectContent(g)]
                            /\ pc' = [pc EXCEPT ![r] = AfterEmbedded(g)]
                            /\ UNCHANGED res
               ELSE EmbeddedFetchFailed(r)
    /\ UNCHANGED <<req, logStore>>

\* Lines 201-221: `await getFileFromS3(key)` of the attachment loop settles.
GetAttachment(r) ==
    /\ pc[r] = "getAttachment"
    /\ LET f == frame[r]
           key == f.attachmentKeys.v[f.attIdx + 1]
       IN \E ok \in BOOLEAN :
            /\ calls' = [calls EXCEPT ![r] = Append(@, Call("getObject", key, ok, 0))]
            /\ IF ok
               THEN LET g == PushAttachment(f, key, S3Object(key))
                    IN /\ frame' = [frame EXCEPT ![r] = g]
                       /\ pc' = [pc EXCEPT ![r] =
                                   IF g.attIdx < Len(f.attachmentKeys.v)
                                   THEN "getAttachment" ELSE "send"]
                       /\ UNCHANGED res
               ELSE AttachmentFetchFailed(r)
    /\ UNCHANGED <<req, logStore>>

\* Line 221: `await sgMail.send(msg)` settles.
SgMailSend(r) ==
    /\ pc[r] = "send"
    /\ \/ /\ calls' = [calls EXCEPT ![r] = Append(@, Call("send", <<>>, TRUE, 0))]
          /\ pc' = [pc EXCEPT ![r] = "create"]
          /\ UNCHANGED res
       \/ /\ calls' = [calls EXCEPT ![r] = Append(@, Call("send", <<>>, FALSE, 0))]
          /\ SendRejected(r)
    /\ UNCHANGED <<req, frame, logStore>>

\* Lines 223-235: `await EmailLog.create(...)` settles.
EmailLogCreate(r) ==
    /\ pc[r] = "create"
    /\ LET f == frame[r]
       IN \/ /\ calls' = [calls EXCEPT ![r] = Append(@, Call("create", <<>>, TRUE, Len(logStore) + 1))]
             /\ \E now \in Nows :
                  logStore' = StoreCreate(logStore,
                      EmailLogDoc(Len(logStore) + 1, f.to, f.subject,
                                  f.plainTextContent.v, f.msg.html.v,
                                  f.embeddedImageLogs, f.attachmentLogs, now))
             /\ Respond(r, 200, [message |-> "Email sent successfully",
                                 htmlGenerated |-> f.useHtmlTemplate])
             /\ pc' = [pc EXCEPT ![r] = "done"]
          \/ /\ calls' = [calls EXCEPT ![r] = Append(@, Call("create", <<>>, FALSE, 0))]
             /\ CreateRejected(r)
             /\ UNCHANGED logStore
    /\ UNCHANGED <<req, frame>>

\* ----------------------------------------------------------- /preview-email

\* Faulty variant of DummyCids: the ids count from 0.
DummyCidsZeroBased(embeddedImageCount) ==
    LET count == IF embeddedImageCount.defined THEN embeddedImageCount.v ELSE 0
    IN [k \in 1..count |-> <<"preview-image-">> \o Dec(k - 1)]

\* Lines 254-257: the synthetic content-ids of a preview.
DummyCids(embeddedImageCount) ==
    LET count == IF embeddedImageCount.defined THEN embeddedImageCount.v ELSE 0
    IN [k \in 1..count |-> <<"preview-image-">> \o Dec(k)]

\* Lines 246-261: the handler has no await and runs in one piece.
PostPreviewEmail(r) ==
    /\ pc[r] = "idle"
    /\ \E subject \in Subjects, body \in Bodies, embeddedImageCount \in Counts :
        /\ req' = [req EXCEPT ![r] =
                     [NoRequest EXCEPT !.route = "preview-email",
                        !.subject = subject, !.body = body,
                        !.embeddedImageCount = embeddedImageCount]]
        /\ IF Falsy(subject) \/ Falsy(body)
           THEN Respond(r, 400, [message |-> "Missing required fields: subject, body"])
           ELSE Respond(r, 200, [html |-> generateHTMLEmail(subject.v, body.v,
                                             DummyCids(embeddedImageCount))])
    /\ pc' = [pc EXCEPT ![r] = "done"]
    /\ UNCHANGED <<frame, calls, logStore>>

\* ------------------------------------------------------------------ /emails

\* The filter of lines 266-276 applied to one document.
QueryMatches(search, doc) ==
    IF Falsy(search) THEN TRUE
    ELSE \/ RegexMatch(search.v, doc.to)
         \/ RegexMatch(search.v, doc.subject)
         \/ RegexMatch(search.v, doc.body)

\* The positions of the documents a find(query) selects.
Selected(search) == {p \in 1..Len(logStore) : QueryMatches(search, logStore[p])}

\* .sort({ timestamp: -1 }): every order of the selected documents with
\* timestamps descending; documents of equal timestamp come in either order.
SortedFinds(search) ==
    LET sel == Selected(search)
        orders == {o \in [1..Cardinality(sel) -> sel] :
                     /\ \A a, b \in 1..Cardinality(sel) : a # b => o[a] # o[b]
                     /\ \A a \in 1..(Cardinality(sel) - 1) :
                          logStore[o[a]].timestamp >= logStore[o[a + 1]].timestamp}
    IN {[a \in 1..Cardinality(sel) |-> logStore[o[a]]] : o \in orders}

\* Lines 263-278: the request arrives; the handler suspends on the find.
GetEmails(r) ==
    /\ pc[r] = "idle"
    /\ \E search \in Searches :
         req' = [req EXCEPT ![r] = [NoRequest EXCEPT !.route = "emails", !.search = search]]
    /\ pc' = [pc EXCEPT ![r] = "find"]
    /\ UNCHANGED <<frame, calls, res, logStore>>

\* Lines 278-283: `await EmailLog.find(query).sort(...)` settles.
EmailLogFind(r) ==
    /\ pc[r] = "find"
    /\ \/ /\ calls' = [calls EXCEPT ![r] = Append(@, Call("find", <<>>, TRUE, Len(logStore)))]
          /\ \E emails \in SortedFinds(req[r].search) : Respond(r, 200, emails)
       \/ /\ calls' = [calls EXCEPT ![r] = Append(@, Call("find", <<>>, FALSE, 0))]
          /\ Respond(r, 500, [message |-> "Failed to fetch emails",
                              error |-> ErrorDetail(MongoError)])
    /\ pc' = [pc EXCEPT ![r] = "done"]
    /\ UNCHANGED <<req, frame, logStore>>

\* ------------------------------------------------------------ specification

Next ==
    \E r \in Reqs :
        \/ PostSendEmail(r)
        \/ GetEmbeddedImage(r)
        \/ GetAttachment(r)
        \/ SgMailSend(r)
        \/ EmailLogCreate(r)
        \/ PostPreviewEmail(r)
        \/ GetEmails(r)
        \/ EmailLogFind(r)

Spec == Init /\ [][Next]_vars

\* ------------------------------------------------------- claim vocabulary

\* A field of a request is missing: undefined or the empty string.
IsMissing(x) == ~x.defined \/ x.v = <<>>

\* The keys a request carries in a list field (none when the field is absent).
KeysOf(keys) == IF keys.defined THEN keys.v ELSE <<>>

IsSend(r) == req[r].route = "send-email"

\* The request made a call of this operation with this outcome.
Made(r, op, ok) == \E k \in 1..Len(calls[r]) : calls[r][k].op = op /\ calls[r][k].ok = ok

\* How many calls of this operation the request made.
CountOf(r, op) == Cardinality({k \in 1..Len(calls[r]) : calls[r][k].op = op})

\* The request has answered, once, with this status.
Answered(r, status) == pc[r] = "done" /\ Len(res[r]) = 1 /\ res[r][1].status = status

\* The documents added to the collection since start.
AddedDocs == {logStore[p] : p \in (Len(SeedLog) + 1)..Len(logStore)}

\* The _ids of the documents this request's create calls resolved with.
CreatedIds(r) == {calls[r][k].doc : k \in {j \in 1..Len(calls[r]) :
                                          calls[r][j].op = "create" /\ calls[r][j].ok}}

\* Every document added since start is the result of one resolved create.
AddedAreCreated ==
    /\ \A d \in AddedDocs : \E r \in Reqs : d._id \in CreatedIds(r)
    /\ \A r \in Reqs : \A id \in CreatedIds(r) : \E d \in AddedDocs : d._id = id
    /\ \A r1, r2 \in Reqs : r1 # r2 => CreatedIds(r1) \cap CreatedIds(r2) = {}

\* ------------------------------------------------------------------ claims

\* C1: a POST /send-email whose `to`, `subject` or `body` is missing or empty
\* answers 400 and makes no call to storage, to the mail provider or to the
\* log store, whatever key lists it carries.
C1_MissingFieldsRejected ==
    \A r \in Reqs :
        (IsSend(r) /\ (IsMissing(req[r].to) \/ IsMissing(req[r].subject)
                       \/ IsMissing(req[r].body)))
        => /\ Answered(r, 400)
           /\ calls[r] = <<>>
           /\ CreatedIds(r) = {}
           /\ AddedAreCreated

C1_Witness ==
    \E r \in Reqs :
        /\ IsSend(r)
        /\ IsMissing(req[r].body) /\ ~IsMissing(req[r].to) /\ ~IsMissing(req[r].subject)
        /\ Len(KeysOf(req[r].attachmentKeys)) = MaxKeys
        /\ Len(KeysOf(req[r].embeddedImageKeys)) = MaxKeys
        /\ Answered(r, 400)

\* C2: when a fetch from storage fails for a key of embeddedImageKeys or of
\* attachmentKeys, at any position, the request answers 500 and makes neither
\* the mail provider call nor the log store write.
C2_FetchFailureAborts ==
    \A r \in Reqs :
        (IsSend(r) /\ Made(r, "getObject", FALSE))
        => /\ Answered(r, 500)
           /\ CountOf(r, "send") = 0
           /\ CountOf(r, "create") = 0
           /\ CreatedIds(r) = {}
           /\ AddedAreCreated

\* The last attachment fails after every inline image and every earlier
\* attachment was fetched.
C2_Witness ==
    \E r \in Reqs :
        /\ IsSend(r)
        /\ Len(KeysOf(req[r].embeddedImageKeys)) = MaxKeys
        /\ Len(KeysOf(req[r].attachmentKeys)) = MaxKeys
        /\ Len(calls[r]) = 2 * MaxKeys
        /\ ~calls[r][2 * MaxKeys].ok
        /\ Answered(r, 500)

\* C3: a document is created only after the delivery of the same request
\* succeeded; a request whose delivery fails creates none and answers 500;
\* a request that answers 200 has created exactly one.
C3_LogOnlyAfterDelivery ==
    /\ AddedAreCreated
    /\ \A r \in Reqs :
        IsSend(r) =>
          /\ \A k \in 1..Len(calls[r]) :
                calls[r][k].op = "create"
                => k > 1 /\ calls[r][k - 1].op = "send" /\ calls[r][k - 1].ok
          /\ Made(r, "send", FALSE)
                => CountOf(r, "create") = 0 /\ Answered(r, 500)
          /\ (pc[r] = "done" /\ \E k \in 1..Len(res[r]) : res[r][k].status = 200)
                => Cardinality(CreatedIds(r)) = 1 /\ CountOf(r, "create") = 1

\* One request answered 200 and another's delivery failed.
C3_Witness ==
    \E r1, r2 \in Reqs :
        /\ IsSend(r1) /\ Answered(r1, 200) /\ Cardinality(CreatedIds(r1)) = 1
        /\ IsSend(r2) /\ Made(r2, "send", FALSE) /\ Answered(r2, 500)

\* C4: when the delivery succeeds and the log store write fails, the request
\* ends with the message delivered, no document created and the answer 500;
\* neither the delivery nor the write is made a second time.
C4_DeliveredButNotLogged ==
    \A r \in Reqs :
        (IsSend(r) /\ Made(r, "create", FALSE))
        => /\ Answered(r, 500)
           /\ CountOf(r, "send") = 1 /\ Made(r, "send", TRUE)
           /\ CountOf(r, "create") = 1
           /\ calls[r][Len(calls[r])].op = "create"
           /\ CreatedIds(r) = {}
           /\ AddedAreCreated

C4_Witness ==
    \E r \in Reqs :
        /\ IsSend(r)
        /\ Made(r, "send", TRUE) /\ Made(r, "create", FALSE)
        /\ Answered(r, 500)
        /\ \A d \in AddedDocs : \E q \in Reqs \ {r} : d._id \in CreatedIds(q)

\* C5: with useHtmlTemplate false, the `body` of the document the request
\* writes equals its `htmlBody` with every <...> substring removed.
C5_PlainTextLogIsStrippedHtml ==
    \A r \in Reqs :
        (IsSend(r) /\ req[r].useHtmlTemplate.defined /\ ~req[r].useHtmlTemplate.v)
        => \A d \in AddedDocs :
              d._id \in CreatedIds(r) => d.body = StripTags(d.htmlBody)

\* The content-id the k-th inline image is to carry (k counts from 1).
ImageId(k) == <<"image-">> \o Dec(k)

Digits == {DigitChars[k] : k \in 1..Len(DigitChars)}

\* Position p of s starts the reference cid:<id> (and not that of a longer id).
CidRefAt(s, p, id) ==
    /\ p + Len(id) <= Len(s)
    /\ s[p] = "cid:"
    /\ SubSeq(s, p + 1, p + Len(id)) = id
    /\ p + Len(id) < Len(s) => s[p + Len(id) + 1] \notin Digits

Occurrences(s, id) == {p \in 1..Len(s) : CidRefAt(s, p, id)}

HasCid(s) == \E p \in 1..Len(s) : s[p] = "cid:"

\* The content-ids of the inline parts and of the logged embeddedImages of a
\* request whose message was sent are image-1 .. image-N in input order.
ContentIdsInOrder(r) ==
    LET keys == KeysOf(req[r].embeddedImageKeys)
        f == frame[r]
        IsInline(a) == a.disposition = "inline"
        inline == SelectSeq(f.msg.attachments, IsInline)
    IN /\ Len(inline) = Len(keys)
       /\ Len(f.embeddedImageLogs) = Len(keys)
       /\ \A k \in 1..Len(keys) :
            /\ inline[k].content_id.defined
            /\ inline[k].content_id.v = ImageId(k)
            /\ f.embeddedImageLogs[k].cid = ImageId(k)
            /\ f.embeddedImageLogs[k].s3Key = keys[k]
       /\ \A d \in AddedDocs :
            d._id \in CreatedIds(r) => d.embeddedImages = f.embeddedImageLogs

\* C6 as stated: the content-ids are image-1 .. image-N in input order and
\* each occurs exactly once in the HTML part of the sent message.
C6_EachCidOnceInHtml ==
    \A r \in Reqs :
        (IsSend(r) /\ Made(r, "send", TRUE))
        => /\ ContentIdsInOrder(r)
           /\ \A k \in 1..Len(KeysOf(req[r].embeddedImageKeys)) :
                Cardinality(Occurrences(frame[r].msg.html.v, ImageId(k))) = 1

\* C6 as amended: the content-ids are image-1 .. image-N in input order; with
\* useHtmlTemplate true and no cid: reference in subject or body, each occurs
\* exactly once in the HTML part, in order; with useHtmlTemplate false the
\* HTML part is the body as submitted.
C6_CidsInTemplateHtml ==
    \A r \in Reqs :
        (IsSend(r) /\ Made(r, "send", TRUE))
        => LET f == frame[r]
               html == f.msg.html.v
               n == Len(KeysOf(req[r].embeddedImageKeys))
               templated == ~req[r].useHtmlTemplate.defined \/ req[r].useHtmlTemplate.v
           IN /\ ContentIdsInOrder(r)
              /\ (templated /\ ~HasCid(req[r].subject.v) /\ ~HasCid(req[r].body.v))
                 => /\ \A k \in 1..n : Cardinality(Occurrences(html, ImageId(k))) = 1
                    /\ \A k \in 1..(n - 1) :
                         \A p \in Occurrences(html, ImageId(k)) :
                         \A q \in Occurrences(html, ImageId(k + 1)) : p < q
                    /\ Cardinality({p \in 1..Len(html) : html[p] = "cid:"}) = n
              /\ ~templated => html = req[r].body.v

C6_Witness ==
    \E r \in Reqs :
        /\ IsSend(r) /\ Answered(r, 200)
        /\ ~req[r].useHtmlTemplate.defined
        /\ req[r].body.v = PlainBody
        /\ Len(KeysOf(req[r].embeddedImageKeys)) = MaxKeys
        /\ Cardinality(Occurrences(frame[r].msg.html.v, ImageId(MaxKeys))) = 1

\* Case-insensitive substring: q occurs in text up to the case of letters.
ContainsIgnoringCase(text, q) ==
    \E off \in 0..(Len(text) - Len(q)) :
        \A k \in 1..Len(q) : Lower(q[k]) = Lower(text[off + k])

\* C7: GET /emails with a search value answers exactly the stored documents
\* whose to, subject or body contains the value as a case-insensitive
\* substring, newest first; with no search value, all of them, newest first.
C7_SearchIsSubstringMatch ==
    \A r \in Reqs :
        (req[r].route = "emails" /\ Answered(r, 200))
        => LET emails == res[r][1].json
               search == req[r].search
               stored == {logStore[p] : p \in 1..calls[r][1].doc}
               expected == {d \in stored :
                              \/ IsMissing(search)
                              \/ ContainsIgnoringCase(d.to, search.v)
                              \/ ContainsIgnoringCase(d.subject, search.v)
                              \/ ContainsIgnoringCase(d.body, search.v)}
           IN /\ {emails[k] : k \in 1..Len(emails)} = expected
              /\ Len(emails) = Cardinality(expected)
              /\ \A k \in 1..(Len(emails) - 1) :
                    emails[k].timestamp >= emails[k + 1].timestamp

Quotes == {"\"", ImgClose}

\* The tokens of an id: up to the quote that closes the attribute.
IdAfter(t) ==
    LET ends == {p \in 1..Len(t) : t[p] \in Quotes}
    IN IF ends = {} THEN t
       ELSE SubSeq(t, 1, (CHOOSE p \in ends : \A q \in ends : p <= q) - 1)

RECURSIVE CidRefs(_)
\* The ids of the cid: references of a text, in order.
CidRefs(s) ==
    IF s = <<>> THEN <<>>
    ELSE IF Head(s) = "cid:" THEN <<IdAfter(Tail(s))>> \o CidRefs(Tail(s))
    ELSE CidRefs(Tail(s))

PreviewIds(n) == [k \in 1..n |-> <<"preview-image-">> \o Dec(k)]

IsPreview(r) == req[r].route = "preview-email"

PreviewCount(r) ==
    IF req[r].embeddedImageCount.defined THEN req[r].embeddedImageCount.v ELSE 0

\* A preview touches no external service and needs subject and body.
PreviewIsLocal(r) ==
    /\ calls[r] = <<>>
    /\ CreatedIds(r) = {}
    /\ AddedAreCreated
    /\ (IsMissing(req[r].subject) \/ IsMissing(req[r].body)) => Answered(r, 400)

\* C8 as stated: the HTML of a preview with subject and body references
\* cid:preview-image-1 .. cid:preview-image-N in order and no other cid:.
C8_PreviewOnlyDummyCids ==
    \A r \in Reqs :
        IsPreview(r)
        => /\ PreviewIsLocal(r)
           /\ ~(IsMissing(req[r].subject) \/ IsMissing(req[r].body))
              => /\ Answered(r, 200)
                 /\ CidRefs(res[r][1].json.html) = PreviewIds(PreviewCount(r))

\* C8 as amended: the cid: references of the HTML are those the subject
\* (rendered twice) and the body themselves carry, followed by
\* cid:preview-image-1 .. cid:preview-image-N in order.
C8_PreviewCidsAfterContent ==
    \A r \in Reqs :
        IsPreview(r)
        => /\ PreviewIsLocal(r)
           /\ ~(IsMissing(req[r].subject) \/ IsMissing(req[r].body))
              => /\ Answered(r, 200)
                 /\ CidRefs(res[r][1].json.html) =
                       CidRefs(req[r].subject.v) \o CidRefs(req[r].subject.v)
                       \o CidRefs(req[r].body.v) \o PreviewIds(PreviewCount(r))

C8_Witness ==
    \E r \in Reqs :
        /\ IsPreview(r) /\ Answered(r, 200)
        /\ req[r].embeddedImageCount = [defined |-> TRUE, v |-> MaxPreviewCount]
        /\ req[r].body.v = PlainBody
        /\ Len(CidRefs(res[r][1].json.html)) = MaxPreviewCount

\* C9: documents are immutable: every step keeps every stored document in
\* place and unchanged, and the only step that changes the collection is the
\* one append of a /send-email request that answers 200.
C9_LogRecordsImmutable ==
    [][/\ Len(logStore') >= Len(logStore)
       /\ SubSeq(logStore', 1, Len(logStore)) = logStore
       /\ logStore' # logStore
          => /\ Len(logStore') = Len(logStore) + 1
             /\ \E r \in Reqs :
                  /\ IsSend(r) /\ pc[r] = "create" /\ pc'[r] = "done"
                  /\ res[r] = <<>> /\ Len(res'[r]) = 1 /\ res'[r][1].status = 200
                  /\ \A q \in Reqs \ {r} : pc'[q] = pc[q]]_vars

\* A search ran before a send of another request appended its document.
C9_Witness ==
    \E r1, r2 \in Reqs :
        /\ IsSend(r1) /\ Answered(r1, 200)
        /\ req[r2].route = "emails" /\ Answered(r2, 200)
        /\ calls[r2][1].doc = Len(SeedLog)
        /\ Len(logStore) = Len(SeedLog) + 1
        /\ SubSeq(logStore, 1, Len(SeedLog)) = SeedLog

\* The calls a valid /send-email request makes when none fails.
ExpectedCalls(r) ==
    [k \in 1..Len(KeysOf(req[r].embeddedImageKeys)) |->
        [op |-> "getObject", arg |-> KeysOf(req[r].embeddedImageKeys)[k]]]
    \o [k \in 1..Len(KeysOf(req[r].attachmentKeys)) |->
        [op |-> "getObject", arg |-> KeysOf(req[r].attachmentKeys)[k]]]
    \o <<[op |-> "send", arg |-> <<>>], [op |-> "create", arg |-> <<>>]>>

\* C10: a /send-email request makes its calls in sequence, each at most once:
\* the inline-image fetches in order, the attachment fetches in order, the
\* delivery, the log write; the first failing call is the last call, and the
\* request answers exactly once.
C10_CallsInSequenceOnce ==
    \A r \in Reqs :
        (IsSend(r) /\ ~IsMissing(req[r].to) /\ ~IsMissing(req[r].subject)
                   /\ ~IsMissing(req[r].body))
        => LET e == ExpectedCalls(r)
               c == calls[r]
           IN /\ Len(c) <= Len(e)
              /\ \A k \in 1..Len(c) : c[k].op = e[k].op /\ c[k].arg = e[k].arg
              /\ \A k \in 1..(Len(c) - 1) : c[k].ok
              /\ Len(res[r]) <= 1
              /\ pc[r] = "done" <=> Len(res[r]) = 1
              /\ pc[r] # "done" => \A k \in 1..Len(c) : c[k].ok
              /\ pc[r] = "done"
                 => /\ Len(c) >= 1
                    /\ IF c[Len(c)].ok
                       THEN Len(c) = Len(e) /\ res[r][1].status = 200
                       ELSE res[r][1].status = 500

C10_Witness ==
    \E r1, r2 \in Reqs :
        /\ IsSend(r1) /\ Answered(r1, 200) /\ Len(calls[r1]) = 2 * MaxKeys + 2
        /\ IsSend(r2) /\ Answered(r2, 500)
        /\ Len(calls[r2]) = 2 /\ ~calls[r2][2].ok /\ calls[r2][2].op = "getObject"

====
